---- MODULE Spec2Model ----
(***************************************************************************)
(* Model of the frame ring buffer of NativeTasks                           *)
(* (CircularImageBuffer.h) together with the static mutex that guards it   *)
(* (Mutex.h).  A producer thread (the camera callback) calls add(); a      *)
(* consumer thread calls lock(), unlock(), get(), peek(), reset() and      *)
(* resetStats().  Each method is one action; a method that has to wait in  *)
(* mMutex.lock() stops there, and add() is continued by a second action    *)
(* once the mutex is free.  Mutex wraps a VCOS mutex (vcos_mutex_lock),    *)
(* which is not re-entrant: a thread that locks it again while holding it  *)
(* waits for ever.  add() releases the mutex before it returns, so the     *)
(* only thread that holds the mutex between two steps is the consumer, and *)
(* a consumer method that waits for the mutex never goes on.  (On a buffer *)
(* of capacity 0, which only SpecAnyCapacity constructs, add() returns     *)
(* with the mutex still locked.)                                           *)
(*                                                                         *)
(* CaptureSpec is the capture session of VideoCapture.cpp: the calling     *)
(* thread starts and stops the capture, each call one action with every    *)
(* way its MMAL calls can fail, and the camera invokes                     *)
(* cameraBufferCallback on its own threads, one action for each stretch of *)
(* the callback between two accesses to what the threads share.  The       *)
(* camera hands out frames only while the port is enabled and its capture  *)
(* is on.  The destructor of the capture manager runs uninitVideo() in     *)
(* four steps, in the order of the code.                                   *)
(*                                                                         *)
(* KernelSpec is the pixel kernels of FastImage.cpp: its initial states    *)
(* are the calls, over all image sizes up to the bounds, and each action   *)
(* runs one kernel, loop by loop as the code does, and leaves the result   *)
(* in `kernel`.                                                            *)
(*                                                                         *)
(* SharedMutexSpec is two buffer objects of one sample type, which share   *)
(* the static mutex: the consumer locks and unlocks through the first, and *)
(* another thread calls add(), reset() and resetStats() on the second.     *)
(***************************************************************************)
EXTENDS Integers, Sequences, FiniteSets, TLC

\* ------------------------------------------------------------------------
\* Bounds of the model
\* ------------------------------------------------------------------------

\* Largest capacity a buffer is constructed with
MaxCapacity == 3

\* Largest number of frames the producer passes to add()
MaxAdds == 5

\* The largest width and height of the images the pixel kernels are called
\* with
MaxDim == 3

\* The largest width and height of the images the box average is called with
MaxLerpDim == 2

\* How often rotate180 is called on one buffer at most
MaxRotations == 2

\* ------------------------------------------------------------------------
\* Program constants
\* ------------------------------------------------------------------------

\* The statistics counters are `unsigned int` (32 bits); MaxAdds keeps them
\* far below the value at which they wrap.

\* Value of mNextGetIndex when the buffer holds no image
NoGetIndex == -1

\* get() and peek() return a pointer to a slot (modelled as the slot's
\* index) or nullptr
nullptr == -2

\* Frame contents (a frame is width*height samples, copied as a whole).
\* add() copies the samples and never looks at them, so it is enough to pass
\* frames that are all unlike one another: the n-th frame passed is n.
Frames == 1..MaxAdds

\* What memory holds before anything is written to it: the samples of a slot
\* after `new SampleType[...]` (equal to no frame a caller passes in), and the
\* data members before the constructor's reset() and resetStats()
Uninit == 0

VARIABLES
    buffer,     \* the CircularImageBuffer object (its data members)
    mMutex,     \* the static mutex: "free", or the thread that holds it
    producer,   \* the producer thread: where it is
    consumer,   \* the consumer thread: where it is
    lastOp,     \* the method of the buffer (lock/unlock aside) that returned last
    ret,        \* what it returned (nullptr for a method returning nothing)
    pre,        \* the data members when it began
    prevOp,     \* "peek" when it is get() or peek() and the method that
                \* returned before it was peek()
    prevRet,    \* what that peek() returned
    added,      \* the images add() copied in since the last call of reset()
    frameNo,    \* the number of frames passed to add() so far
    onlyAdds,   \* TRUE as long as no method but add(), lock() and unlock()
                \* was called on the buffer since it was constructed
    noResets,   \* TRUE as long as neither reset() nor resetStats() was called
    session,    \* gVideoCaptureManager: the data members of the VideoCapture
    hw,         \* the camera's video port and its pool of buffer headers
    callback,   \* the invocations of cameraBufferCallback: where each is
    noReentryFlag,  \* the static flag of cameraBufferCallback
    lastCall,   \* the call of startCapture()/stopCapture() that returned last,
                \* and how it returned
    lastStart,  \* the receiver passed to the last startCapture() that succeeded
    delivery,   \* what the callback did last with a frame
    stops,      \* how many calls of stopCapture() returned without a throw one
                \* after the other, up to the last call that returned (2: two
                \* or more)
    teardown,   \* 0 while gVideoCaptureManager is alive; in its destructor,
                \* the number of the step of uninitVideo() to do next
    fate,       \* for every frame the camera handed to the callback: how
                \* often a receiver was invoked with it, and whether its
                \* invocation returned at the re-entry test
    kernel,     \* the pixel kernel called last: its arguments and its result
    other,      \* a second CircularImageBuffer object of the same sample type
    otherCaller,    \* the thread that calls its methods: "idle", or the method
                \* in whose mMutex.lock() it waits
    otherCalls  \* how many calls of its methods have run past their lock()

\* The variables of the ring buffer and of its two threads
bufferVars == <<mMutex, producer, consumer, lastOp, ret, pre, prevOp, prevRet,
                added, frameNo, onlyAdds, noResets>>

\* The variables of the capture session
captureVars == <<session, hw, callback, noReentryFlag, lastCall, lastStart, delivery,
                 stops, teardown, fate>>

\* The variables of the second buffer object and of its thread
instanceVars == <<other, otherCaller, otherCalls>>

vars == <<buffer, bufferVars, captureVars, kernel, instanceVars>>

\* ------------------------------------------------------------------------
\* CircularImageBuffer: accessors
\* ------------------------------------------------------------------------

\* capacity(): the capacity of the vector of slots (reserve(capacity) on an
\* empty vector, then capacity push_backs: exactly the constructor's argument)
capacity(b) == Len(b.mCircularBuffer)

isEmpty(b) == b.mCount = 0

\* isFull with a slip: > for ==
isFull_greater(b) == b.mCount > capacity(b)

isFull(b) == b.mCount = capacity(b)

\* ------------------------------------------------------------------------
\* CircularImageBuffer: what the methods do to the data members
\* ------------------------------------------------------------------------

\* resetBody with a slip: the statistics are zeroed as well
resetBody_zeroStats(b) ==
    [b EXCEPT !.mCount = 0, !.mNextAddIndex = 0, !.mNextGetIndex = NoGetIndex,
              !.mStatFramesAdded = 0, !.mStatFramesRead = 0, !.mStatFramesSkipped = 0]

\* resetBody with a slip: the get index is left where it was
resetBody_keepGetIndex(b) ==
    [b EXCEPT !.mCount = 0, !.mNextAddIndex = 0]

\* reset(), between its lock() and unlock()
resetBody(b) ==
    [b EXCEPT !.mCount = 0, !.mNextAddIndex = 0, !.mNextGetIndex = NoGetIndex]

\* resetStatsBody with a slip: the count of images is zeroed as well
resetStatsBody_zeroCount(b) ==
    [b EXCEPT !.mStatFramesAdded = 0, !.mStatFramesRead = 0, !.mStatFramesSkipped = 0,
              !.mCount = 0]

\* resetStats(), between its lock() and unlock()
resetStatsBody(b) ==
    [b EXCEPT !.mStatFramesAdded = 0, !.mStatFramesRead = 0, !.mStatFramesSkipped = 0]

\* add(): the memcpy into the slot at mNextAddIndex (the vector is indexed
\* from 0, the sequence from 1) and the count of the frame
addCopy(b, image) ==
    [b EXCEPT !.mCircularBuffer[b.mNextAddIndex + 1] = image,
              !.mStatFramesAdded = @ + 1]

\* addFull with a slip: the add index stays
addFull_keepAddIndex(b) ==
    [b EXCEPT !.mNextGetIndex = (@ + 1) % capacity(b),
              !.mStatFramesSkipped = @ + 1]

\* addFull with a slip: the frame overwritten is not counted
addFull_noSkipCount(b) ==
    [b EXCEPT !.mNextAddIndex = (@ + 1) % capacity(b),
              !.mNextGetIndex = (@ + 1) % capacity(b)]

\* addFull with a slip: the get index does not follow the add index
addFull_keepGetIndex(b) ==
    [b EXCEPT !.mNextAddIndex = (@ + 1) % capacity(b),
              !.mStatFramesSkipped = @ + 1]

\* add() on a full buffer: both indices move on, the frame overwritten is counted
addFull(b) ==
    [b EXCEPT !.mNextAddIndex = (@ + 1) % capacity(b),
              !.mNextGetIndex = (@ + 1) % capacity(b),
              !.mStatFramesSkipped = @ + 1]

\* addNotFull with a slip: the get index is moved to the new image every time
addNotFull_alwaysSetGetIndex(b) ==
    [b EXCEPT !.mNextGetIndex = b.mNextAddIndex,
              !.mCount = @ + 1,
              !.mNextAddIndex = (@ + 1) % capacity(b)]

\* addNotFull with a slip: the add index does not wrap
addNotFull_noWrap(b) ==
    [b EXCEPT !.mNextGetIndex = IF isEmpty(b) THEN b.mNextAddIndex ELSE @,
              !.mCount = @ + 1,
              !.mNextAddIndex = @ + 1]

\* add() on a buffer that is not full
addNotFull(b) ==
    [b EXCEPT !.mNextGetIndex = IF isEmpty(b) THEN b.mNextAddIndex ELSE @,
              !.mCount = @ + 1,
              !.mNextAddIndex = (@ + 1) % capacity(b)]

\* addBody with a slip: the frame is counted before the capacity is tested
addBody_countBeforeCheck(b, image) ==
    IF capacity(b) = 0
    THEN [b EXCEPT !.mStatFramesAdded = @ + 1]
    ELSE LET w == addCopy(b, image)
         IN  IF isFull(w) THEN addFull(w) ELSE addNotFull(w)

\* add(), after its lock(): nothing is done to a buffer of capacity 0
addBody(b, image) ==
    IF capacity(b) = 0
    THEN b
    ELSE LET w == addCopy(b, image)
         IN  IF isFull(w) THEN addFull(w) ELSE addNotFull(w)

\* get(): the image returned, nullptr on an empty buffer
getReturn(b) == IF isEmpty(b) THEN nullptr ELSE b.mNextGetIndex

\* getTake with a slip: the frame read is not counted
getTake_noReadCount(b) ==
    [b EXCEPT !.mCount = @ - 1]

\* getTake with a slip: the frames read are counted down
getTake_readDown(b) ==
    [b EXCEPT !.mStatFramesRead = @ - 1, !.mCount = @ - 1]

\* get() on a buffer that is not empty: the statistics and the count
getTake(b) ==
    [b EXCEPT !.mStatFramesRead = @ + 1, !.mCount = @ - 1]

\* getUpdate with a slip: no early return on an empty buffer
getUpdate_noEmptyCheck(b) == getTake(b)

\* get(), up to its test `if (isEmpty())` after the count was updated
getUpdate(b) == IF isEmpty(b) THEN b ELSE getTake(b)

\* getAdvance with a slip: the get index does not wrap
getAdvance_noWrap(b) ==
    [b EXCEPT !.mNextGetIndex = @ + 1]

\* getAdvance with a slip: the get index stays
getAdvance_stay(b) == b

\* get(): move to the next get position
getAdvance(b) ==
    [b EXCEPT !.mNextGetIndex = (@ + 1) % capacity(b)]

\* peekResult with a slip: no test for an empty buffer
peekResult_noEmptyCheck(b) == b.mNextGetIndex

\* peek(): the slot returned
peekResult(b) == IF isEmpty(b) THEN nullptr ELSE b.mNextGetIndex

\* The constructor: `cap` slots of uninitialized samples, then reset() and
\* resetStats() give every other data member its value
Construct(cap) ==
    resetStatsBody(resetBody(
        [mCircularBuffer    |-> [i \in 1..cap |-> Uninit],
         mCount             |-> Uninit,
         mNextAddIndex      |-> Uninit,
         mNextGetIndex      |-> Uninit,
         mStatFramesAdded   |-> Uninit,
         mStatFramesRead    |-> Uninit,
         mStatFramesSkipped |-> Uninit]))

\* ------------------------------------------------------------------------
\* VideoCapture: constants and the state before any capture
\* ------------------------------------------------------------------------

\* The capacity the capture session gives its ring buffer
kCircularImageBufferCapacity == 3

\* The number of buffer headers in the pool of the video port
kVideoOutputBufferCount == 2

\* FastImage: the fixed-point scale of the resampling kernels
kFixedShift == 16

\* The frame receivers a caller may pass to startCapture() (pointers to
\* functions, none of them nullptr)
Receivers == {1, 2}

\* What `new CircularImageBuffer<LumaSample>(...)` returns: a pointer that is
\* not nullptr
TheBuffer == 1

\* The threads on which the camera invokes cameraBufferCallback
CallbackThreads == {1, 2}

\* The memory of the ring buffer while no CircularImageBuffer object exists
NoBuffer ==
    [mCircularBuffer    |-> <<>>,
     mCount             |-> Uninit,
     mNextAddIndex      |-> Uninit,
     mNextGetIndex      |-> Uninit,
     mStatFramesAdded   |-> Uninit,
     mStatFramesRead    |-> Uninit,
     mStatFramesSkipped |-> Uninit]

\* The video port while no camera component exists
NoPort == [is_enabled |-> FALSE, capture |-> FALSE, atPort |-> 0, pool |-> 0, frames |-> 0]

\* gVideoCaptureManager after its constructor: the object has static storage,
\* so the members the constructor does not set are zero
VideoCapture ==
    [mVideoInitialized     |-> FALSE,
     mLumaFrameReceiver    |-> nullptr,
     mpCircularImageBuffer |-> nullptr,
     mpMmalCamComponent    |-> nullptr]

\* No pixel kernel was called yet
NoKernel == [op |-> "none"]

\* No capture was started yet
NotStarted ==
    /\ session = VideoCapture
    /\ hw = NoPort
    /\ callback = [i \in CallbackThreads |-> [pc |-> "idle", image |-> 0]]
    /\ noReentryFlag = FALSE
    /\ lastCall = "none"
    /\ lastStart = nullptr
    /\ delivery = [image |-> 0, toBuffer |-> FALSE, toReceiver |-> nullptr,
                   initialized |-> FALSE, deleted |-> FALSE]
    /\ stops = 0
    /\ teardown = 0
    /\ fate = <<>>

\* ------------------------------------------------------------------------
\* Initial state: a buffer just constructed, nobody holds the mutex
\* ------------------------------------------------------------------------

\* There is one CircularImageBuffer object at most: no second one
OnlyOne ==
    /\ other = NoBuffer
    /\ otherCaller = "idle"
    /\ otherCalls = 0

\* A buffer constructed with one of the capacities `caps`
Constructed(caps) ==
    /\ \E cap \in caps : buffer = Construct(cap)
    /\ mMutex = "free"
    /\ producer = "idle"
    /\ consumer = "ready"
    /\ lastOp = "construct"
    /\ ret = nullptr
    /\ pre = buffer
    /\ prevOp = "other"
    /\ prevRet = nullptr
    /\ added = <<>>
    /\ frameNo = 0
    /\ onlyAdds = TRUE
    /\ noResets = TRUE
    /\ NotStarted
    /\ kernel = NoKernel

\* The buffer as the capture code constructs it: with a capacity that is not 0
Init == Constructed(1..MaxCapacity) /\ OnlyOne

\* The buffer constructed with any capacity, 0 included
InitAnyCapacity == Constructed(0..MaxCapacity) /\ OnlyOne

\* A method returns: what the history variables become
Returns(op, value) ==
    /\ lastOp' = op
    /\ ret' = value
    /\ pre' = buffer
    /\ prevOp' = (IF lastOp = "peek" /\ op \in {"peek", "get"} THEN "peek" ELSE "other")
    /\ prevRet' = (IF lastOp = "peek" /\ op \in {"peek", "get"} THEN ret ELSE nullptr)

\* A method does not return in this step
NoReturn == UNCHANGED <<lastOp, ret, pre, prevOp, prevRet>>

\* ------------------------------------------------------------------------
\* Producer
\* ------------------------------------------------------------------------

\* The body of add() runs with the mutex held from its first to its last line
addRun(image) ==
    /\ capacity(buffer) > 0
    /\ buffer' = addBody(buffer, image)
    /\ added' = Append(added, image)
    /\ frameNo' = frameNo + 1
    /\ Returns("add", nullptr)
    /\ producer' = "idle"
    /\ UNCHANGED <<mMutex, consumer, onlyAdds, noResets>>
    /\ UNCHANGED <<captureVars, kernel, instanceVars>>

\* add() on a buffer of capacity 0, the mutex taken.  Built with assertions,
\* `assert(capacity() > 0)` fails and ends the process, all its threads with
\* it; built without them (NDEBUG), add() returns at `if (capacity() == 0)`
\* and the mutex stays locked.
addNoCapacity(image) ==
    /\ capacity(buffer) = 0
    /\ frameNo' = frameNo + 1
    /\ \/ /\ producer' = "aborted"
          /\ consumer' = "aborted"
          /\ NoReturn
          /\ UNCHANGED <<buffer, mMutex>>
       \/ /\ buffer' = addBody(buffer, image)
          /\ mMutex' = "producer"
          /\ producer' = "idle"
          /\ Returns("add", nullptr)
          /\ UNCHANGED consumer
    /\ UNCHANGED <<added, onlyAdds, noResets>>
    /\ UNCHANGED <<captureVars, kernel, instanceVars>>

\* add with a slip: the mMutex.lock() at its start is missing
add_noLock(image) ==
    /\ producer = "idle"
    /\ image = frameNo + 1
    /\ (addRun(image) \/ addNoCapacity(image))

\* add with a slip: add() waits when the buffer is full
add_waitWhenFull(image) ==
    /\ producer = "idle"
    /\ image = frameNo + 1
    /\ \/ /\ mMutex = "free"
          /\ ~isFull(buffer)
          /\ (addRun(image) \/ addNoCapacity(image))
       \/ /\ (mMutex # "free" \/ isFull(buffer))
          /\ producer' = "add_lock"
          /\ NoReturn
          /\ UNCHANGED <<buffer, mMutex, consumer, added, frameNo, onlyAdds,
                         noResets>>
          /\ UNCHANGED <<captureVars, kernel, instanceVars>>

\* add(image): takes the mutex and runs, or waits for the mutex in
\* mMutex.lock(); `image` points to the caller's samples, which are not read
\* before the memcpy
add(image) ==
    /\ producer = "idle"
    /\ image = frameNo + 1
    /\ \/ /\ mMutex = "free"
          /\ (addRun(image) \/ addNoCapacity(image))
       \/ /\ mMutex # "free"
          /\ producer' = "add_lock"
          /\ NoReturn
          /\ UNCHANGED <<buffer, mMutex, consumer, added, frameNo, onlyAdds,
                         noResets>>
          /\ UNCHANGED <<captureVars, kernel, instanceVars>>

\* add() gets the mutex it was waiting for
add_resume ==
    /\ producer = "add_lock"
    /\ mMutex = "free"
    /\ (addRun(frameNo + 1) \/ addNoCapacity(frameNo + 1))

\* ------------------------------------------------------------------------
\* Consumer
\* ------------------------------------------------------------------------

\* lock(): the consumer takes the mutex
lock ==
    /\ consumer = "ready"
    /\ mMutex = "free"
    /\ mMutex' = "consumer"
    /\ NoReturn
    /\ UNCHANGED <<buffer, producer, consumer, added, frameNo, onlyAdds, noResets>>
    /\ UNCHANGED <<captureVars, kernel, instanceVars>>

\* unlock(): the consumer gives the mutex back
unlock ==
    /\ consumer = "ready"
    /\ mMutex = "consumer"
    /\ mMutex' = "free"
    /\ NoReturn
    /\ UNCHANGED <<buffer, producer, consumer, added, frameNo, onlyAdds, noResets>>
    /\ UNCHANGED <<captureVars, kernel, instanceVars>>

\* get(): nullptr on an empty buffer; otherwise the slot at mNextGetIndex.
\* When the last image is taken get() calls reset(), which takes the mutex:
\* get() waits there when the mutex is held (the mutex is not recursive, so
\* also when the caller itself holds it).
get ==
    /\ consumer = "ready"
    /\ \/ /\ ~isEmpty(getUpdate(buffer))
          /\ buffer' = getAdvance(getUpdate(buffer))
          /\ Returns("get", getReturn(buffer))
          /\ UNCHANGED consumer
       \/ /\ isEmpty(buffer)
          /\ buffer' = getUpdate(buffer)
          /\ Returns("get", getReturn(buffer))
          /\ UNCHANGED consumer
       \/ /\ ~isEmpty(buffer)
          /\ isEmpty(getUpdate(buffer))
          /\ mMutex = "free"
          /\ buffer' = resetBody(getUpdate(buffer))
          /\ Returns("get", getReturn(buffer))
          /\ UNCHANGED consumer
       \/ /\ ~isEmpty(buffer)
          /\ isEmpty(getUpdate(buffer))
          /\ mMutex # "free"
          /\ buffer' = getUpdate(buffer)
          /\ consumer' = "get_reset_lock"
          /\ NoReturn
    /\ onlyAdds' = FALSE
    /\ UNCHANGED <<mMutex, producer, added, frameNo, noResets>>
    /\ UNCHANGED <<captureVars, kernel, instanceVars>>

\* peek(): the slot at mNextGetIndex, or nullptr
peek ==
    /\ consumer = "ready"
    /\ Returns("peek", peekResult(buffer))
    /\ onlyAdds' = FALSE
    /\ UNCHANGED <<buffer, mMutex, producer, consumer, added, frameNo, noResets>>
    /\ UNCHANGED <<captureVars, kernel, instanceVars>>

\* reset(): takes the mutex (or waits for it), empties the buffer
reset ==
    /\ consumer = "ready"
    /\ \/ /\ mMutex = "free"
          /\ buffer' = resetBody(buffer)
          /\ added' = <<>>
          /\ Returns("reset", nullptr)
          /\ UNCHANGED consumer
       \/ /\ mMutex # "free"
          /\ consumer' = "reset_lock"
          /\ NoReturn
          /\ UNCHANGED <<buffer, added>>
    /\ onlyAdds' = FALSE
    /\ noResets' = FALSE
    /\ UNCHANGED <<mMutex, producer, frameNo>>
    /\ UNCHANGED <<captureVars, kernel, instanceVars>>

\* resetStats(): takes the mutex (or waits for it), zeroes the statistics
resetStats ==
    /\ consumer = "ready"
    /\ \/ /\ mMutex = "free"
          /\ buffer' = resetStatsBody(buffer)
          /\ Returns("resetStats", nullptr)
          /\ UNCHANGED consumer
       \/ /\ mMutex # "free"
          /\ consumer' = "resetStats_lock"
          /\ NoReturn
          /\ UNCHANGED buffer
    /\ onlyAdds' = FALSE
    /\ noResets' = FALSE
    /\ UNCHANGED <<mMutex, producer, added, frameNo>>
    /\ UNCHANGED <<captureVars, kernel, instanceVars>>

Next ==
    \/ \E image \in Frames : add(image)
    \/ add_resume
    \/ lock
    \/ unlock
    \/ get
    \/ peek
    \/ reset
    \/ resetStats

Spec == Init /\ [][Next]_vars

\* The same methods on a buffer of any capacity
SpecAnyCapacity == InitAnyCapacity /\ [][Next]_vars

\* ------------------------------------------------------------------------
\* VideoCapture: starting and stopping a capture
\* ------------------------------------------------------------------------

\* What mmal_component_create() returns: a pointer that is not nullptr
TheCamera == 1

\* How a call of startCapture() can go: every MMAL call in it succeeds, or
\* createCameraComponent() throws, or mmal_port_enable() fails, or
\* mmal_port_send_buffer() fails, or setting MMAL_PARAMETER_CAPTURE fails
StartOutcomes == {"ok", "create_fails", "enable_fails", "send_fails", "capture_fails"}

\* How a call of stopCapture() can go
StopOutcomes == {"ok", "fails"}

\* initVideo(): the members set before the camera component is created
initMembers(s, receiver) ==
    [s EXCEPT !.mpMmalCamComponent = nullptr, !.mLumaFrameReceiver = receiver]

\* initDone with a slip: the ring buffer is allocated in both modes
initDone_alwaysAllocate(s) ==
    [s EXCEPT !.mpMmalCamComponent = TheCamera,
              !.mpCircularImageBuffer = TheBuffer,
              !.mVideoInitialized = TRUE]

\* initVideo(): the members once the port is enabled and has its buffers;
\* the ring buffer is allocated if there is no receiver
initDone(s) ==
    [s EXCEPT !.mpMmalCamComponent = TheCamera,
              !.mpCircularImageBuffer =
                  IF s.mLumaFrameReceiver = nullptr THEN TheBuffer ELSE @,
              !.mVideoInitialized = TRUE]

\* uninitVideo(): what it leaves of the data members
uninitVideo(s) ==
    [s EXCEPT !.mpMmalCamComponent = nullptr,
              !.mpCircularImageBuffer = nullptr,
              !.mLumaFrameReceiver = nullptr,
              !.mVideoInitialized = FALSE]

\* The video port enabled, all buffer headers of its pool sent to it
PortEnabled(capture) ==
    [is_enabled |-> TRUE, capture |-> capture, atPort |-> kVideoOutputBufferCount,
     pool |-> 0, frames |-> hw.frames]

\* startCapture(..., receiver) as a whole.  initVideo() returns at once when
\* the session is initialized.  Otherwise it sets the members; an exception
\* of createCameraComponent() leaves them so; a failure after that runs
\* uninitVideo().  Last, MMAL_PARAMETER_CAPTURE is set, which starts the
\* frames.  No callback runs while initVideo() runs: the component is new
\* and its capture is off.
startCapture(receiver, outcome) ==
    /\ teardown = 0
    /\ \/ /\ session.mVideoInitialized
          /\ outcome \in {"ok", "capture_fails"}
          /\ hw' = [hw EXCEPT !.capture = IF outcome = "ok" THEN TRUE ELSE @]
          /\ UNCHANGED <<session, buffer, added>>
       \/ /\ ~session.mVideoInitialized
          /\ outcome = "create_fails"
          /\ session' = initMembers(session, receiver)
          /\ UNCHANGED <<hw, buffer, added>>
       \/ /\ ~session.mVideoInitialized
          /\ outcome \in {"enable_fails", "send_fails"}
          /\ session' = uninitVideo(initMembers(session, receiver))
          /\ hw' = NoPort
          /\ UNCHANGED <<buffer, added>>
       \/ /\ ~session.mVideoInitialized
          /\ outcome \in {"ok", "capture_fails"}
          /\ session' = initDone(initMembers(session, receiver))
          /\ hw' = PortEnabled(outcome = "ok")
          /\ buffer' = IF receiver = nullptr
                       THEN Construct(kCircularImageBufferCapacity)
                       ELSE buffer
          /\ added' = <<>>
    /\ lastCall' = (IF outcome = "ok" THEN "startCapture" ELSE "startCapture_throws")
    /\ lastStart' = (IF outcome = "ok" THEN receiver ELSE lastStart)
    /\ stops' = 0
    /\ UNCHANGED <<mMutex, producer, consumer, lastOp, ret, pre, prevOp, prevRet,
                   frameNo, onlyAdds, noResets, callback, noReentryFlag, delivery, teardown,
                   fate, kernel, instanceVars>>

\* stopCapture() with a slip: MMAL_PARAMETER_CAPTURE is flipped, not cleared
stopCapture_toggle(outcome) ==
    /\ teardown = 0
    /\ \/ /\ outcome = "ok"
          /\ session.mpMmalCamComponent # nullptr
          /\ hw' = [hw EXCEPT !.capture = ~@]
          /\ lastCall' = "stopCapture"
          /\ stops' = (IF stops = 0 THEN 1 ELSE 2)
       \/ /\ outcome = "fails"
          /\ lastCall' = "stopCapture_throws"
          /\ stops' = 0
          /\ UNCHANGED hw
    /\ UNCHANGED <<buffer, bufferVars, session, callback, noReentryFlag, lastStart,
                   delivery, teardown, fate, kernel, instanceVars>>

\* stopCapture() as a whole: MMAL_PARAMETER_CAPTURE is set to 0 on the copy of
\* the port, and that is all; the call fails when MMAL says so, and when
\* there is no camera component (the copy of the port is all zero)
stopCapture(outcome) ==
    /\ teardown = 0
    /\ \/ /\ outcome = "ok"
          /\ session.mpMmalCamComponent # nullptr
          /\ hw' = [hw EXCEPT !.capture = FALSE]
          /\ lastCall' = "stopCapture"
          /\ stops' = (IF stops = 0 THEN 1 ELSE 2)
       \/ /\ outcome = "fails"
          /\ lastCall' = "stopCapture_throws"
          /\ stops' = 0
          /\ UNCHANGED hw
    /\ UNCHANGED <<buffer, bufferVars, session, callback, noReentryFlag, lastStart,
                   delivery, teardown, fate, kernel, instanceVars>>

\* ------------------------------------------------------------------------
\* VideoCapture: the camera's callback
\* ------------------------------------------------------------------------

\* An invocation moves on to `pc`
Goto(i, pc) == callback' = [callback EXCEPT ![i].pc = pc]

\* The camera fills a buffer header the port holds and invokes
\* cameraBufferCallback with it, on a thread that runs no invocation; it
\* does so while the port is enabled and the capture on
cameraBufferCallback_invoke(i) ==
    /\ callback[i].pc = "idle"
    /\ hw.is_enabled
    /\ hw.capture
    /\ hw.atPort > 0
    /\ hw.frames < MaxAdds
    /\ hw' = [hw EXCEPT !.atPort = @ - 1, !.frames = @ + 1]
    /\ callback' = [callback EXCEPT ![i] = [pc |-> "test", image |-> hw.frames + 1]]
    /\ fate' = Append(fate, [calls |-> 0, away |-> FALSE])
    /\ UNCHANGED <<buffer, bufferVars, session, noReentryFlag, lastCall, lastStart,
                   delivery, stops, teardown, kernel, instanceVars>>

\* `if (noReentryFlag) return;`
cameraBufferCallback_test(i) ==
    /\ callback[i].pc = "test"
    /\ Goto(i, IF noReentryFlag THEN "idle" ELSE "set")
    /\ fate' = [fate EXCEPT ![callback[i].image].away = noReentryFlag]
    /\ UNCHANGED <<buffer, bufferVars, session, hw, noReentryFlag, lastCall,
                   lastStart, delivery, stops, teardown, kernel, instanceVars>>

\* `noReentryFlag = true;`
cameraBufferCallback_set(i) ==
    /\ callback[i].pc = "set"
    /\ noReentryFlag' = TRUE
    /\ Goto(i, "deliver")
    /\ UNCHANGED <<buffer, bufferVars, session, hw, lastCall, lastStart, delivery,
                   stops, teardown, fate, kernel, instanceVars>>

\* `nullptr != state.mLumaFrameReceiver` with a slip: `==` for `!=`
hasReceiver_inverted(s) == s.mLumaFrameReceiver = nullptr

\* `nullptr != state.mLumaFrameReceiver`
hasReceiver(s) == s.mLumaFrameReceiver # nullptr

\* The object mpCircularImageBuffer points to was deleted
Deleted == session.mpCircularImageBuffer # nullptr /\ buffer = NoBuffer

\* The frame is added to the ring buffer if there is one (add() takes the
\* mutex) and passed to the receiver if there is one.  add() on a deleted
\* buffer is undefined; it is recorded in `delivery` and the memory is left
\* as it is.
cameraBufferCallback_deliver(i) ==
    /\ callback[i].pc = "deliver"
    /\ IF session.mpCircularImageBuffer # nullptr /\ ~Deleted
       THEN /\ mMutex = "free"
            /\ buffer' = addBody(buffer, callback[i].image)
            /\ added' = Append(added, callback[i].image)
            /\ frameNo' = frameNo + 1
            /\ Returns("add", nullptr)
       ELSE /\ NoReturn
            /\ UNCHANGED <<buffer, added, frameNo>>
    /\ delivery' = [image       |-> callback[i].image,
                    toBuffer    |-> session.mpCircularImageBuffer # nullptr,
                    toReceiver  |-> session.mLumaFrameReceiver,
                    initialized |-> session.mVideoInitialized,
                    deleted     |-> Deleted]
    /\ fate' = [fate EXCEPT ![callback[i].image].calls =
                                IF hasReceiver(session) THEN @ + 1 ELSE @]
    /\ Goto(i, "release")
    /\ UNCHANGED <<mMutex, producer, consumer, onlyAdds, noResets, session, hw,
                   noReentryFlag,
                   lastCall, lastStart, stops, teardown, kernel, instanceVars>>

\* The buffer header is released to the pool; if the port is enabled a
\* header is taken from the pool and sent to the port; `noReentryFlag = false;`
cameraBufferCallback_release(i) ==
    /\ callback[i].pc = "release"
    /\ hw' = [hw EXCEPT !.atPort = IF hw.is_enabled THEN @ + 1 ELSE @,
                        !.pool = IF hw.is_enabled THEN @ ELSE @ + 1]
    /\ noReentryFlag' = FALSE
    /\ Goto(i, "idle")
    /\ UNCHANGED <<buffer, bufferVars, session, lastCall, lastStart, delivery,
                   stops, teardown, fate, kernel, instanceVars>>

cameraBufferCallback(i) ==
    \/ cameraBufferCallback_invoke(i)
    \/ cameraBufferCallback_test(i)
    \/ cameraBufferCallback_set(i)
    \/ cameraBufferCallback_deliver(i)
    \/ cameraBufferCallback_release(i)

\* ------------------------------------------------------------------------
\* VideoCapture: the destructor
\* ------------------------------------------------------------------------

\* uninitVideo() with a slip: the ring buffer is deleted first
uninitVideoSteps_deleteFirst == <<"delete", "component", "null", "members">>

\* The order of uninitVideo(): the component and its port are disabled and
\* destroyed, the ring buffer is deleted, its pointer is set to nullptr, the
\* receiver and mVideoInitialized are cleared
uninitVideoSteps == <<"component", "delete", "null", "members">>

\* The step of uninitVideo() the destructor is at
AtStep(step) ==
    /\ teardown \in 1..Len(uninitVideoSteps)
    /\ uninitVideoSteps[teardown] = step

\* ~VideoCapture() is entered, when the program ends; no call of
\* startCapture() or stopCapture() follows
destructor ==
    /\ teardown = 0
    /\ teardown' = 1
    /\ UNCHANGED <<buffer, bufferVars, session, hw, callback, noReentryFlag, lastCall,
                   lastStart, delivery, stops, fate, kernel, instanceVars>>

\* uninitVideo(), if there is a camera component: the component is disabled,
\* its video port is disabled if enabled, pool and component are destroyed.
\* mmal_port_disable() returns when the callback has returned for every
\* buffer header in transit, and no callback is invoked after it.
uninitVideo_component ==
    /\ AtStep("component")
    /\ IF session.mpMmalCamComponent # nullptr
       THEN /\ hw.is_enabled => \A i \in CallbackThreads : callback[i].pc = "idle"
            /\ hw' = [hw EXCEPT !.is_enabled = FALSE, !.capture = FALSE,
                                !.atPort = 0, !.pool = 0]
            /\ session' = [session EXCEPT !.mpMmalCamComponent = nullptr]
       ELSE UNCHANGED <<hw, session>>
    /\ teardown' = teardown + 1
    /\ UNCHANGED <<buffer, bufferVars, callback, noReentryFlag, lastCall, lastStart,
                   delivery, stops, fate, kernel, instanceVars>>

\* uninitVideo(): `delete mpCircularImageBuffer;`
uninitVideo_delete ==
    /\ AtStep("delete")
    /\ buffer' = IF session.mpCircularImageBuffer # nullptr THEN NoBuffer ELSE buffer
    /\ teardown' = teardown + 1
    /\ UNCHANGED <<bufferVars, session, hw, callback, noReentryFlag, lastCall,
                   lastStart, delivery, stops, fate, kernel, instanceVars>>

\* uninitVideo(): `mpCircularImageBuffer = nullptr;`
uninitVideo_null ==
    /\ AtStep("null")
    /\ session' = [session EXCEPT !.mpCircularImageBuffer = nullptr]
    /\ teardown' = teardown + 1
    /\ UNCHANGED <<buffer, bufferVars, hw, callback, noReentryFlag, lastCall,
                   lastStart, delivery, stops, fate, kernel, instanceVars>>

\* uninitVideo(): the receiver and mVideoInitialized are cleared
uninitVideo_members ==
    /\ AtStep("members")
    /\ session' = [session EXCEPT !.mLumaFrameReceiver = nullptr,
                                  !.mVideoInitialized = FALSE]
    /\ teardown' = teardown + 1
    /\ UNCHANGED <<buffer, bufferVars, hw, callback, noReentryFlag, lastCall,
                   lastStart, delivery, stops, fate, kernel, instanceVars>>

\* ------------------------------------------------------------------------
\* The capture session: the calling thread and the camera's callbacks
\* ------------------------------------------------------------------------

\* No ring buffer is allocated and no capture was started
Unused ==
    /\ buffer = NoBuffer
    /\ mMutex = "free"
    /\ producer = "idle"
    /\ consumer = "ready"
    /\ lastOp = "construct"
    /\ ret = nullptr
    /\ pre = buffer
    /\ prevOp = "other"
    /\ prevRet = nullptr
    /\ added = <<>>
    /\ frameNo = 0
    /\ onlyAdds = TRUE
    /\ noResets = TRUE
    /\ NotStarted

CaptureInit ==
    /\ Unused
    /\ kernel = NoKernel
    /\ OnlyOne

CaptureNext ==
    \/ \E receiver \in Receivers \cup {nullptr}, outcome \in StartOutcomes :
          startCapture(receiver, outcome)
    \/ \E outcome \in StopOutcomes : stopCapture(outcome)
    \/ \E i \in CallbackThreads : cameraBufferCallback(i)
    \/ destructor
    \/ uninitVideo_component
    \/ uninitVideo_delete
    \/ uninitVideo_null
    \/ uninitVideo_members

CaptureSpec == CaptureInit /\ [][CaptureNext]_vars

\* ------------------------------------------------------------------------
\* FastImage: the pixel kernels
\* ------------------------------------------------------------------------

\* An image of n pixels is a function on 0..n-1, as the code indexes it.
\* The image whose pixel i holds i: a kernel that only moves pixels shows in
\* its result where every pixel came from
Ramp(n) == [i \in 0 .. n - 1 |-> i]

\* The same for a color image: pixel i holds i in each of its three low bytes
ColorRamp(n) == [i \in 0 .. n - 1 |-> i * 65793]

\* A destination buffer of n pixels nothing was written to
Unwritten(n) == [i \in 0 .. n - 1 |-> -1]

\* The widths and heights of the images
Dims == 1 .. MaxDim

\* rotate180 with a slip: ltmp and rtmp are stored the other way round
rotateSwap_tmpsSwapped(b, width, height, x, y) ==
    LET top  == width * y
        bot  == width * (height - y - 1)
        ltmp == b[top + x]
        rtmp == b[top + width - x - 1]
        b1   == [b  EXCEPT ![top + x] = b[bot + width - x - 1]]
        b2   == [b1 EXCEPT ![top + width - x - 1] = b1[bot + x]]
        b3   == [b2 EXCEPT ![bot + x] = ltmp]
    IN  [b3 EXCEPT ![bot + width - x - 1] = rtmp]

\* rotate180: the body of the inner loop, statement by statement
rotateSwap(b, width, height, x, y) ==
    LET top  == width * y
        bot  == width * (height - y - 1)
        ltmp == b[top + x]
        rtmp == b[top + width - x - 1]
        b1   == [b  EXCEPT ![top + x] = b[bot + width - x - 1]]
        b2   == [b1 EXCEPT ![top + width - x - 1] = b1[bot + x]]
        b3   == [b2 EXCEPT ![bot + x] = rtmp]
    IN  [b3 EXCEPT ![bot + width - x - 1] = ltmp]

\* rotate180: the inner loop, from column x on
RECURSIVE rotateLine(_, _, _, _, _)
rotateLine(b, width, height, x, y) ==
    IF x < width \div 2
    THEN rotateLine(rotateSwap(b, width, height, x, y), width, height, x + 1, y)
    ELSE b

\* rotate180: the outer loop, from line y on
RECURSIVE rotateLines(_, _, _, _)
rotateLines(b, width, height, y) ==
    IF y < height \div 2
    THEN rotateLines(rotateLine(b, width, height, 0, y), width, height, y + 1)
    ELSE b

rotate180(b, width, height) == rotateLines(b, width, height, 0)

\* What a read outside an image yields
OutOfBounds == -3

\* `src[i]`
Read(src, i) == IF i \in DOMAIN src THEN src[i] ELSE OutOfBounds

\* `x >> kFixedShift`, for the numbers the kernels shift, none negative
fixedToInt(fx) == fx \div (2 ^ kFixedShift)

\* The deltas with a slip: destination over source
fxDeltas_inverted(srcWidth, srcHeight, dstWidth, dstHeight) ==
    [x |-> (dstWidth * 2 ^ kFixedShift) \div srcWidth,
     y |-> (dstHeight * 2 ^ kFixedShift) \div srcHeight]

\* The deltas with a slip: the sizes are divided before they are shifted
fxDeltas_shiftAfterDivide(srcWidth, srcHeight, dstWidth, dstHeight) ==
    [x |-> (srcWidth \div dstWidth) * 2 ^ kFixedShift,
     y |-> (srcHeight \div dstHeight) * 2 ^ kFixedShift]

\* The deltas with a slip: the one in Y is taken from the source's width
fxDeltas_heightFromWidth(srcWidth, srcHeight, dstWidth, dstHeight) ==
    [x |-> (srcWidth * 2 ^ kFixedShift) \div dstWidth,
     y |-> (srcWidth * 2 ^ kFixedShift) \div dstHeight]

\* The deltas through the source image in X and Y, in fixed point
fxDeltas(srcWidth, srcHeight, dstWidth, dstHeight) ==
    [x |-> (srcWidth * 2 ^ kFixedShift) \div dstWidth,
     y |-> (srcHeight * 2 ^ kFixedShift) \div dstHeight]

\* resampleNearestNeighborLuma: the inner loop, from column xDst on
RECURSIVE lumaLine(_, _, _, _, _, _, _, _, _)
lumaLine(src, srcWidth, dst, dstWidth, fx, yDst, ySrc, xDst, xSrc) ==
    IF xDst < dstWidth
    THEN LET yDstOffset == yDst * dstWidth
             ySrcOffset == fixedToInt(ySrc) * srcWidth
             xSrcOffset == fixedToInt(xSrc)
         IN  lumaLine(src, srcWidth,
                      [dst EXCEPT ![yDstOffset + xDst] = Read(src, ySrcOffset + xSrcOffset)],
                      dstWidth, fx, yDst, ySrc, xDst + 1, xSrc + fx.x)
    ELSE dst

\* resampleNearestNeighborLuma: the outer loop, from line yDst on
RECURSIVE lumaLines(_, _, _, _, _, _, _, _)
lumaLines(src, srcWidth, dst, dstWidth, dstHeight, fx, yDst, ySrc) ==
    IF yDst < dstHeight
    THEN lumaLines(src, srcWidth,
                   lumaLine(src, srcWidth, dst, dstWidth, fx, yDst, ySrc, 0, 0),
                   dstWidth, dstHeight, fx, yDst + 1, ySrc + fx.y)
    ELSE dst

resampleNearestNeighborLuma(src, srcWidth, srcHeight, dstWidth, dstHeight) ==
    lumaLines(src, srcWidth, Unwritten(dstWidth * dstHeight), dstWidth, dstHeight,
              fxDeltas(srcWidth, srcHeight, dstWidth, dstHeight), 0, 0)

\* resampleNearestNeighborColor: the inner loop, from column xDst on
RECURSIVE colorLine(_, _, _, _, _, _, _, _, _)
colorLine(src, srcWidth, dst, dstWidth, fx, yDst, ySrc, xDst, xSrc) ==
    IF xDst < dstWidth
    THEN LET yDstOffset == yDst * dstWidth
             ySrcOffset == fixedToInt(ySrc) * srcWidth
             xSrcOffset == fixedToInt(xSrc)
         IN  colorLine(src, srcWidth,
                       [dst EXCEPT ![yDstOffset + xDst] = Read(src, ySrcOffset + xSrcOffset)],
                       dstWidth, fx, yDst, ySrc, xDst + 1, xSrc + fx.x)
    ELSE dst

\* resampleNearestNeighborColor: the outer loop, from line yDst on
RECURSIVE colorLines(_, _, _, _, _, _, _, _)
colorLines(src, srcWidth, dst, dstWidth, dstHeight, fx, yDst, ySrc) ==
    IF yDst < dstHeight
    THEN colorLines(src, srcWidth,
                    colorLine(src, srcWidth, dst, dstWidth, fx, yDst, ySrc, 0, 0),
                    dstWidth, dstHeight, fx, yDst + 1, ySrc + fx.y)
    ELSE dst

resampleNearestNeighborColor(src, srcWidth, srcHeight, dstWidth, dstHeight) ==
    colorLines(src, srcWidth, Unwritten(dstWidth * dstHeight), dstWidth, dstHeight,
               fxDeltas(srcWidth, srcHeight, dstWidth, dstHeight), 0, 0)

\* The values of the samples of the images the box average is called with
Samples == {0, 255}

\* The widths and heights of those images
LerpDims == 1 .. MaxLerpDim

\* What `pix / tot` leaves in a pixel when tot is 0
DivisionByZero == -2

\* resampleLerpFastLuma: the innermost loop, the tally of one line of the
\* source rectangle from column x on
RECURSIVE tallyLine(_, _, _, _)
tallyLine(src, ySrcOffset, x, x1Src) ==
    IF x < x1Src
    THEN Read(src, ySrcOffset + x) + tallyLine(src, ySrcOffset, x + 1, x1Src)
    ELSE 0

\* resampleLerpFastLuma: the tally of the source rectangle from line y on
RECURSIVE tallyLines(_, _, _, _, _, _)
tallyLines(src, srcWidth, y, y1Src, x0Src, x1Src) ==
    IF y < y1Src
    THEN tallyLine(src, y * srcWidth, x0Src, x1Src)
            + tallyLines(src, srcWidth, y + 1, y1Src, x0Src, x1Src)
    ELSE 0

\* `(LumaSample)(pix / tot)` with a slip: the quotient is rounded
lerpSample_rounded(pix, tot) ==
    IF tot = 0 THEN DivisionByZero ELSE ((pix + tot \div 2) \div tot) % 256

\* `(LumaSample)(pix / tot)`
lerpSample(pix, tot) ==
    IF tot = 0 THEN DivisionByZero ELSE (pix \div tot) % 256

\* resampleLerpFastLuma: the loop over the columns, from column xDst on
RECURSIVE lerpLine(_, _, _, _, _, _, _, _, _)
lerpLine(src, srcWidth, dst, dstWidth, d, yDst, ySrc, xDst, xSrc) ==
    IF xDst < dstWidth
    THEN LET yDstOffset == yDst * dstWidth
             y0Src == fixedToInt(ySrc)
             y1Src == fixedToInt(ySrc + d.y)
             x0Src == fixedToInt(xSrc)
             x1Src == fixedToInt(xSrc + d.x)
             pix   == tallyLines(src, srcWidth, y0Src, y1Src, x0Src, x1Src)
             tot   == (y1Src - y0Src) * (x1Src - x0Src)
         IN  lerpLine(src, srcWidth,
                      [dst EXCEPT ![yDstOffset + xDst] = lerpSample(pix, tot)],
                      dstWidth, d, yDst, ySrc, xDst + 1, xSrc + d.x)
    ELSE dst

\* resampleLerpFastLuma: the loop over the lines, from line yDst on
RECURSIVE lerpLines(_, _, _, _, _, _, _, _)
lerpLines(src, srcWidth, dst, dstWidth, dstHeight, d, yDst, ySrc) ==
    IF yDst < dstHeight
    THEN lerpLines(src, srcWidth,
                   lerpLine(src, srcWidth, dst, dstWidth, d, yDst, ySrc, 0, 0),
                   dstWidth, dstHeight, d, yDst + 1, ySrc + d.y)
    ELSE dst

resampleLerpFastLuma(src, srcWidth, srcHeight, dstWidth, dstHeight) ==
    lerpLines(src, srcWidth, Unwritten(dstWidth * dstHeight), dstWidth, dstHeight,
              fxDeltas(srcWidth, srcHeight, dstWidth, dstHeight), 0, 0)

\* `a | b` for two numbers that are not negative
RECURSIVE BitOr(_, _)
BitOr(a, b) ==
    IF a = 0 THEN b
    ELSE IF b = 0 THEN a
    ELSE (IF a % 2 = 1 \/ b % 2 = 1 THEN 1 ELSE 0) + 2 * BitOr(a \div 2, b \div 2)

\* `std::max(a, b)`
max(a, b) == IF a < b THEN b ELSE a

\* copy2vuyToLuma with a slip: the first byte of each pair is read
vuyLumaIndex_firstByte(i) == i * 2

\* copy2vuyToLuma: the index in src of the luma byte of pixel i
vuyLumaIndex(i) == i * 2 + 1

\* copy2vuyToLuma: the loop, from pixel i on
RECURSIVE copy2vuyLoop(_, _, _, _)
copy2vuyLoop(src, dst, count, i) ==
    IF i < count
    THEN copy2vuyLoop(src, [dst EXCEPT ![i] = Read(src, vuyLumaIndex(i))], count, i + 1)
    ELSE dst

copy2vuyToLuma(src, dst, width, height) == copy2vuyLoop(src, dst, width * height, 0)

\* copyLumaToColor with a slip: the third byte is shifted by 8 as the second
lumaToColor_shiftTwice(pix) == BitOr(BitOr(pix, pix * 2 ^ 8), pix * 2 ^ 8)

\* copyLumaToColor: `pix | (pix << 8) | (pix << 16)`
lumaToColor(pix) == BitOr(BitOr(pix, pix * 2 ^ 8), pix * 2 ^ 16)

\* copyLumaToColor: the loop, from pixel i on
RECURSIVE copyLumaToColorLoop(_, _, _, _)
copyLumaToColorLoop(src, dst, count, i) ==
    IF i < count
    THEN copyLumaToColorLoop(src, [dst EXCEPT ![i] = lumaToColor(Read(src, i))],
                             count, i + 1)
    ELSE dst

copyLumaToColor(src, dst, width, height) ==
    copyLumaToColorLoop(src, dst, width * height, 0)

\* copyColorToLuma with a slip: every shift is 8 bits too far
colorToLuma_shiftedBytes(pix) ==
    max((pix \div 2 ^ 24) % 256, max((pix \div 2 ^ 16) % 256, (pix \div 2 ^ 8) % 256)) % 256

\* copyColorToLuma:
\* `uint8_t(std::max((pix>>16)&0xff, std::max((pix>>8)&0xff, pix&0xff)))`
colorToLuma(pix) ==
    max((pix \div 2 ^ 16) % 256, max((pix \div 2 ^ 8) % 256, pix % 256)) % 256

\* copyColorToLuma: the loop, from pixel i on
RECURSIVE copyColorToLumaLoop(_, _, _, _)
copyColorToLumaLoop(src, dst, count, i) ==
    IF i < count
    THEN copyColorToLumaLoop(src, [dst EXCEPT ![i] = colorToLuma(Read(src, i))],
                             count, i + 1)
    ELSE dst

copyColorToLuma(src, dst, width, height) ==
    copyColorToLumaLoop(src, dst, width * height, 0)

\* The luma samples of the images copyLumaToColor is called with
LumaSamples == <<0, 1, 128, 255>>

\* The color samples of the images copyColorToLuma is called with, each
\* byte the largest in one of them, some with bits in the top byte:
\* 0x000000, 0xff0000, 0x00ff00, 0x0000ff, 0x7f102030, 0x01030201, 0x40050607
ColorSamples == <<0, 16711680, 65280, 255, 2131763248, 16974337, 1074071047>>

\* The image of n pixels that holds the samples in their order, from the
\* sample `first` on, again and again
Cycle(samples, n, first) ==
    [i \in 0 .. n - 1 |-> samples[((first + i) % Len(samples)) + 1]]

\* ------------------------------------------------------------------------
\* The pixel kernels called with images of every size
\* ------------------------------------------------------------------------

\* A call of a kernel: its arguments, and `dst` as it is before the call
Call(op, src, srcWidth, srcHeight, dst, dstWidth, dstHeight) ==
    [op |-> op, src |-> src, srcWidth |-> srcWidth, srcHeight |-> srcHeight,
     dst |-> dst, dstWidth |-> dstWidth, dstHeight |-> dstHeight,
     times |-> 0, trapped |-> FALSE, divided |-> {}]

\* rotate180(buffer, width, height), on a buffer it may have rotated before
rotate180_call ==
    /\ kernel.op = "rotate180"
    /\ kernel.times < MaxRotations
    /\ kernel' = [kernel EXCEPT !.dst = rotate180(@, kernel.dstWidth, kernel.dstHeight),
                                !.times = @ + 1]
    /\ UNCHANGED <<buffer, bufferVars, captureVars, instanceVars>>

resampleNearestNeighborLuma_call ==
    /\ kernel.op = "resampleNearestNeighborLuma"
    /\ kernel.times = 0
    /\ kernel' = [kernel EXCEPT
                      !.dst = resampleNearestNeighborLuma(kernel.src, kernel.srcWidth,
                                  kernel.srcHeight, kernel.dstWidth, kernel.dstHeight),
                      !.times = 1]
    /\ UNCHANGED <<buffer, bufferVars, captureVars, instanceVars>>

resampleNearestNeighborColor_call ==
    /\ kernel.op = "resampleNearestNeighborColor"
    /\ kernel.times = 0
    /\ kernel' = [kernel EXCEPT
                      !.dst = resampleNearestNeighborColor(kernel.src, kernel.srcWidth,
                                  kernel.srcHeight, kernel.dstWidth, kernel.dstHeight),
                      !.times = 1]
    /\ UNCHANGED <<buffer, bufferVars, captureVars, instanceVars>>

\* resampleLerpFastLuma.  Where a source rectangle is empty the code divides
\* by zero, which is undefined: the call traps, or the quotient is 0 (a
\* hardware divide that does not trap).  `divided` keeps the destination
\* pixels whose divisor `tot` was 0.
resampleLerpFastLuma_call(traps) ==
    LET dst == resampleLerpFastLuma(kernel.src, kernel.srcWidth, kernel.srcHeight,
                                    kernel.dstWidth, kernel.dstHeight)
    IN  /\ kernel.op = "resampleLerpFastLuma"
        /\ kernel.times = 0
        /\ traps => \E i \in DOMAIN dst : dst[i] = DivisionByZero
        /\ kernel' = [kernel EXCEPT
                          !.dst = IF traps
                                  THEN @
                                  ELSE [i \in DOMAIN dst |->
                                           IF dst[i] = DivisionByZero THEN 0 ELSE dst[i]],
                          !.times = 1,
                          !.trapped = traps,
                          !.divided = {i \in DOMAIN dst : dst[i] = DivisionByZero}]
        /\ UNCHANGED <<buffer, bufferVars, captureVars, instanceVars>>

copy2vuyToLuma_call ==
    /\ kernel.op = "copy2vuyToLuma"
    /\ kernel.times = 0
    /\ kernel' = [kernel EXCEPT
                      !.dst = copy2vuyToLuma(kernel.src, @, kernel.dstWidth,
                                             kernel.dstHeight),
                      !.times = 1]
    /\ UNCHANGED <<buffer, bufferVars, captureVars, instanceVars>>

copyLumaToColor_call ==
    /\ kernel.op = "copyLumaToColor"
    /\ kernel.times = 0
    /\ kernel' = [kernel EXCEPT
                      !.dst = copyLumaToColor(kernel.src, @, kernel.dstWidth,
                                              kernel.dstHeight),
                      !.times = 1]
    /\ UNCHANGED <<buffer, bufferVars, captureVars, instanceVars>>

copyColorToLuma_call ==
    /\ kernel.op = "copyColorToLuma"
    /\ kernel.times = 0
    /\ kernel' = [kernel EXCEPT
                      !.dst = copyColorToLuma(kernel.src, @, kernel.dstWidth,
                                              kernel.dstHeight),
                      !.times = 1]
    /\ UNCHANGED <<buffer, bufferVars, captureVars, instanceVars>>

\* No buffer and no capture session; a kernel is about to be called: rotate180
\* on a buffer, which is both its source and its destination, or a resampling
\* or copying kernel on a source image and a destination buffer.  The
\* destination of copy2vuyToLuma has one element more than the image.
KernelInit ==
    /\ Unused
    /\ OnlyOne
    /\ \/ \E width, height \in Dims :
             kernel = Call("rotate180", Ramp(width * height), width, height,
                           Ramp(width * height), width, height)
       \/ \E srcWidth, srcHeight, dstWidth, dstHeight \in Dims :
             kernel = Call("resampleNearestNeighborLuma", Ramp(srcWidth * srcHeight),
                           srcWidth, srcHeight, Unwritten(dstWidth * dstHeight),
                           dstWidth, dstHeight)
       \/ \E srcWidth, srcHeight, dstWidth, dstHeight \in Dims :
             kernel = Call("resampleNearestNeighborColor",
                           ColorRamp(srcWidth * srcHeight), srcWidth, srcHeight,
                           Unwritten(dstWidth * dstHeight), dstWidth, dstHeight)
       \/ \E srcWidth, srcHeight, dstWidth, dstHeight \in LerpDims :
             \E src \in [0 .. srcWidth * srcHeight - 1 -> Samples] :
                kernel = Call("resampleLerpFastLuma", src, srcWidth, srcHeight,
                              Unwritten(dstWidth * dstHeight), dstWidth, dstHeight)
       \/ \E width, height \in Dims :
             kernel = Call("copy2vuyToLuma", Ramp(2 * width * height), width, height,
                           Unwritten(width * height + 1), width, height)
       \/ \E width, height \in Dims, first \in 1 .. Len(LumaSamples) :
             kernel = Call("copyLumaToColor", Cycle(LumaSamples, width * height, first),
                           width, height, Unwritten(width * height), width, height)
       \/ \E width, height \in Dims, first \in 1 .. Len(ColorSamples) :
             kernel = Call("copyColorToLuma", Cycle(ColorSamples, width * height, first),
                           width, height, Unwritten(width * height), width, height)

KernelNext ==
    \/ rotate180_call
    \/ resampleNearestNeighborLuma_call
    \/ resampleNearestNeighborColor_call
    \/ \E traps \in BOOLEAN : resampleLerpFastLuma_call(traps)
    \/ copy2vuyToLuma_call
    \/ copyLumaToColor_call
    \/ copyColorToLuma_call

KernelSpec == KernelInit /\ [][KernelNext]_vars

\* ------------------------------------------------------------------------
\* Two CircularImageBuffer objects of one sample type: the static mutex
\* ------------------------------------------------------------------------

\* sharedMutex with a slip: a mutex of its own for every object, which nobody
\* holds when a method of the second object is called
sharedMutex_perInstance == "free"

\* The mutex the methods of the second object lock: mMutex is a static data
\* member, one Mutex for all objects of CircularImageBuffer<SampleType>
sharedMutex == mMutex

\* What a method of the second object does between its lock() and unlock()
otherBody(method) ==
    CASE method = "add" -> addBody(other, otherCalls + 1)
      [] method = "reset" -> resetBody(other)
      [] method = "resetStats" -> resetStatsBody(other)

\* A thread calls add(), reset() or resetStats() on the second object: the
\* method takes the mutex, runs and gives it back, or it waits for the mutex
\* in mMutex.lock()
otherCall(method) ==
    /\ otherCaller = "idle"
    /\ otherCalls < MaxAdds
    /\ \/ /\ sharedMutex = "free"
          /\ other' = otherBody(method)
          /\ otherCalls' = otherCalls + 1
          /\ UNCHANGED otherCaller
       \/ /\ sharedMutex # "free"
          /\ otherCaller' = method
          /\ UNCHANGED <<other, otherCalls>>
    /\ UNCHANGED <<buffer, bufferVars, captureVars, kernel>>

other_add == otherCall("add")

other_reset == otherCall("reset")

other_resetStats == otherCall("resetStats")

\* The method of the second object gets the mutex it was waiting for
other_resume ==
    /\ otherCaller # "idle"
    /\ sharedMutex = "free"
    /\ other' = otherBody(otherCaller)
    /\ otherCalls' = otherCalls + 1
    /\ otherCaller' = "idle"
    /\ UNCHANGED <<buffer, bufferVars, captureVars, kernel>>

\* Two buffers just constructed; the consumer of the first has not locked it
SharedMutexInit ==
    /\ Constructed(1..MaxCapacity)
    /\ \E cap \in 1..MaxCapacity : other = Construct(cap)
    /\ otherCaller = "idle"
    /\ otherCalls = 0

\* The consumer of the first buffer locks and unlocks it; another thread
\* calls the methods of the second buffer
SharedMutexNext ==
    \/ lock
    \/ unlock
    \/ other_add
    \/ other_reset
    \/ other_resetStats
    \/ other_resume

SharedMutexSpec == SharedMutexInit /\ [][SharedMutexNext]_vars

\* ------------------------------------------------------------------------
\* Properties
\* ------------------------------------------------------------------------

\* The images get() would return from now on, oldest first: the contents of
\* the mCount slots from mNextGetIndex on, modulo the capacity
Window(b) ==
    [i \in 1..b.mCount |->
        b.mCircularBuffer[((b.mNextGetIndex + i - 1) % capacity(b)) + 1]]

\* The last n elements of a sequence
LastN(s, n) == SubSeq(s, Len(s) - n + 1, Len(s))

\* No method is part-way through a change of the data members (the one place
\* where a method can stop between two writes is get() waiting in reset())
Quiescent == consumer # "get_reset_lock"

\* The method `op` returned last and the data members are as it left them
Returned(op) == lastOp = op /\ Quiescent

\* C1: with no reset() in between, the images the buffer holds for get() are
\* exactly the last count() images passed to add(), oldest first; every get()
\* that returns an image returns the oldest of them, with the contents add()
\* was given, and leaves the others; after capacity+1 adds a full buffer holds
\* the 2nd to the (capacity+1)th image, the 1st is gone.
C1_GetReturnsLastFramesInOrder ==
    /\ buffer.mCount <= Len(added)
    /\ Window(buffer) = LastN(added, buffer.mCount)
    /\ (Returned("get") /\ ret # nullptr) =>
          /\ pre.mCount > 0
          /\ buffer.mCircularBuffer[ret + 1] = Head(Window(pre))
          /\ Window(buffer) = Tail(Window(pre))
    /\ (Len(added) = capacity(buffer) + 1 /\ isFull(buffer)) =>
          Window(buffer) = SubSeq(added, 2, capacity(buffer) + 1)

\* C1 witness: capacity+1 images were added and capacity calls of get() have
\* emptied the buffer
C1_Witness ==
    /\ Returned("get")
    /\ ret # nullptr
    /\ capacity(buffer) > 1
    /\ Len(added) = capacity(buffer) + 1
    /\ buffer.mStatFramesRead = capacity(buffer)
    /\ buffer.mStatFramesSkipped = 1
    /\ isEmpty(buffer)

\* C2: in every reachable state 0 <= count <= capacity, and when count > 0
\* both indices are in 0 .. capacity-1.
C2_CountAndIndicesInRange ==
    /\ 0 <= buffer.mCount
    /\ buffer.mCount <= capacity(buffer)
    /\ buffer.mCount > 0 =>
          /\ 0 <= buffer.mNextAddIndex
          /\ buffer.mNextAddIndex < capacity(buffer)
          /\ 0 <= buffer.mNextGetIndex
          /\ buffer.mNextGetIndex < capacity(buffer)

\* C2 witness: an add() on a buffer that is not empty has moved the add index
\* from the last slot round to slot 0
C2_Witness ==
    /\ Returned("add")
    /\ pre.mCount > 0
    /\ pre.mNextAddIndex = capacity(buffer) - 1
    /\ buffer.mNextAddIndex = 0
    /\ buffer.mCount > 0

\* C3 as stated: between the methods, count == 0, mNextGetIndex == -1 and
\* mNextAddIndex == 0 are equivalent.
C3_Original_EmptyIffSentinelIffAddZero ==
    Quiescent =>
        /\ (buffer.mCount = 0) <=> (buffer.mNextGetIndex = NoGetIndex)
        /\ (buffer.mNextGetIndex = NoGetIndex) <=> (buffer.mNextAddIndex = 0)

\* C3 amended: between the methods, count == 0 exactly when mNextGetIndex is
\* -1, and then mNextAddIndex is 0 (mNextAddIndex is also 0 in a buffer that
\* is not empty, whenever the add index has wrapped).
C3_EmptyIffSentinelAndAddZero ==
    Quiescent =>
        /\ (buffer.mCount = 0) <=> (buffer.mNextGetIndex = NoGetIndex)
        /\ (buffer.mCount = 0) => (buffer.mNextAddIndex = 0)

\* C3 witness: a get() has taken the last image of a buffer whose add index
\* was not 0, and left the buffer in the empty state
C3_Witness ==
    /\ Returned("get")
    /\ pre.mCount = 1
    /\ pre.mNextAddIndex # 0
    /\ buffer.mCount = 0
    /\ buffer.mNextGetIndex = NoGetIndex
    /\ buffer.mNextAddIndex = 0

\* C4: between the methods, the buffer is full exactly when the add index
\* equals the get index.
C4_FullIffIndicesEqual ==
    Quiescent => (isFull(buffer) <=> (buffer.mNextAddIndex = buffer.mNextGetIndex))

\* C4 witness: a get() on a full buffer has moved the get index away from the
\* add index
C4_Witness ==
    /\ Returned("get")
    /\ isFull(pre)
    /\ pre.mNextAddIndex = pre.mNextGetIndex
    /\ ~isFull(buffer)
    /\ ~isEmpty(buffer)
    /\ buffer.mNextAddIndex # buffer.mNextGetIndex

\* The three statistics counters
Stats(b) == <<b.mStatFramesAdded, b.mStatFramesRead, b.mStatFramesSkipped>>

\* C5: an add() on a full buffer has written the image into the slot that held
\* the oldest unread image, left count as it was, moved both indices on by one
\* modulo the capacity, and counted one frame added and one skipped, none read.
C5_AddOnFullOverwritesOldest ==
    (Returned("add") /\ isFull(pre)) =>
        /\ buffer.mCircularBuffer =
              [pre.mCircularBuffer EXCEPT ![pre.mNextGetIndex + 1] = added[Len(added)]]
        /\ buffer.mCount = pre.mCount
        /\ buffer.mNextAddIndex = (pre.mNextAddIndex + 1) % capacity(pre)
        /\ buffer.mNextGetIndex = (pre.mNextGetIndex + 1) % capacity(pre)
        /\ buffer.mStatFramesAdded = pre.mStatFramesAdded + 1
        /\ buffer.mStatFramesSkipped = pre.mStatFramesSkipped + 1
        /\ buffer.mStatFramesRead = pre.mStatFramesRead

\* C5 witness: an add() on a full buffer of more than one slot, whose indices
\* were not at slot 0, has overwritten the oldest image
C5_Witness ==
    /\ Returned("add")
    /\ isFull(pre)
    /\ capacity(pre) > 1
    /\ pre.mNextGetIndex # 0
    /\ buffer.mCircularBuffer[pre.mNextGetIndex + 1] = added[Len(added)]
    /\ buffer.mStatFramesSkipped = pre.mStatFramesSkipped + 1

\* C6: an add() on a buffer that is not full has written the image into the
\* slot at the add index, counted one more image and one more frame added,
\* none skipped and none read, moved the add index on by one modulo the
\* capacity, and set the get index to the slot written if the buffer was
\* empty, left it otherwise.
C6_AddOnNotFullAppends ==
    (Returned("add") /\ ~isFull(pre)) =>
        /\ buffer.mCircularBuffer =
              [pre.mCircularBuffer EXCEPT ![pre.mNextAddIndex + 1] = added[Len(added)]]
        /\ buffer.mCount = pre.mCount + 1
        /\ buffer.mStatFramesAdded = pre.mStatFramesAdded + 1
        /\ buffer.mStatFramesSkipped = pre.mStatFramesSkipped
        /\ buffer.mStatFramesRead = pre.mStatFramesRead
        /\ buffer.mNextAddIndex = (pre.mNextAddIndex + 1) % capacity(pre)
        /\ buffer.mNextGetIndex =
              IF isEmpty(pre) THEN pre.mNextAddIndex ELSE pre.mNextGetIndex

\* C6 witness: an add() on a buffer that was neither empty nor full has moved
\* the add index round to slot 0 and left the get index
C6_Witness ==
    /\ Returned("add")
    /\ ~isFull(pre)
    /\ ~isEmpty(pre)
    /\ pre.mNextAddIndex # 0
    /\ buffer.mNextAddIndex = 0
    /\ buffer.mNextGetIndex = pre.mNextGetIndex

\* C7: a get() that returns from a buffer that was not empty returns the slot
\* at the get index, has counted one frame read and one image less; if that
\* was the last image the indices are 0 and -1, otherwise the get index has
\* moved on by one modulo the capacity and the add index is as it was; the
\* counts of frames added and skipped, and the slots, are as they were.
C7_GetTakesOldest ==
    (Returned("get") /\ ~isEmpty(pre)) =>
        /\ ret = pre.mNextGetIndex
        /\ buffer.mStatFramesRead = pre.mStatFramesRead + 1
        /\ buffer.mCount = pre.mCount - 1
        /\ buffer.mCount = 0 =>
              /\ buffer.mNextAddIndex = 0
              /\ buffer.mNextGetIndex = NoGetIndex
        /\ buffer.mCount # 0 =>
              /\ buffer.mNextGetIndex = (pre.mNextGetIndex + 1) % capacity(pre)
              /\ buffer.mNextAddIndex = pre.mNextAddIndex
        /\ buffer.mStatFramesAdded = pre.mStatFramesAdded
        /\ buffer.mStatFramesSkipped = pre.mStatFramesSkipped
        /\ buffer.mCircularBuffer = pre.mCircularBuffer

\* C7 witness: a get() has taken an image from the last slot of a full buffer
\* and moved the get index round to slot 0
C7_Witness ==
    /\ Returned("get")
    /\ isFull(pre)
    /\ pre.mNextGetIndex = capacity(pre) - 1
    /\ capacity(pre) > 1
    /\ ret = pre.mNextGetIndex
    /\ buffer.mNextGetIndex = 0

\* C8: a get() on an empty buffer returns nullptr and leaves every data
\* member as it was.
C8_GetOnEmptyChangesNothing ==
    (Returned("get") /\ isEmpty(pre)) =>
        /\ ret = nullptr
        /\ buffer = pre

\* C8 witness: a get() has returned nullptr from an empty buffer whose
\* statistics are not zero
C8_Witness ==
    /\ Returned("get")
    /\ isEmpty(pre)
    /\ ret = nullptr
    /\ pre.mStatFramesAdded > 0
    /\ pre.mStatFramesRead > 0

\* C9: a peek() leaves every data member as it was and returns the slot at
\* the get index, nullptr on an empty buffer; a peek() straight after a peek()
\* returns the same slot; a get() straight after a peek() returns the slot the
\* peek() returned, and if that is a slot, has counted one image less.
C9_PeekReadsOnly ==
    /\ Returned("peek") =>
          /\ buffer = pre
          /\ isEmpty(pre) => ret = nullptr
          /\ ~isEmpty(pre) => ret = pre.mNextGetIndex
          /\ prevOp = "peek" => ret = prevRet
    /\ (Returned("get") /\ prevOp = "peek") =>
          /\ ret = prevRet
          /\ ret # nullptr => buffer.mCount = pre.mCount - 1

\* C9 witness: a get() straight after a peek() has returned the slot the
\* peek() returned
C9_Witness ==
    /\ Returned("get")
    /\ prevOp = "peek"
    /\ prevRet # nullptr
    /\ ret = prevRet
    /\ buffer.mCount = pre.mCount - 1

\* C10: a reset() that returns leaves count 0, the add index 0 and the get
\* index -1, and the statistics (and the slots) as they were.
C10_ResetEmptiesAndKeepsStats ==
    Returned("reset") =>
        /\ buffer.mCount = 0
        /\ buffer.mNextAddIndex = 0
        /\ buffer.mNextGetIndex = NoGetIndex
        /\ Stats(buffer) = Stats(pre)
        /\ buffer.mCircularBuffer = pre.mCircularBuffer

\* C10 witness: a reset() on a full buffer whose statistics are not zero
C10_Witness ==
    /\ Returned("reset")
    /\ isFull(pre)
    /\ pre.mNextAddIndex # 0
    /\ pre.mStatFramesAdded > 0
    /\ pre.mStatFramesRead > 0
    /\ pre.mStatFramesSkipped > 0
    /\ isEmpty(buffer)

\* C11: a resetStats() that returns leaves the three statistics counters 0
\* and the count, both indices and the slots as they were.
C11_ResetStatsZeroesOnlyStats ==
    Returned("resetStats") =>
        /\ Stats(buffer) = <<0, 0, 0>>
        /\ buffer.mCount = pre.mCount
        /\ buffer.mNextAddIndex = pre.mNextAddIndex
        /\ buffer.mNextGetIndex = pre.mNextGetIndex
        /\ buffer.mCircularBuffer = pre.mCircularBuffer

\* C11 witness: a resetStats() on a buffer that holds images, with all three
\* counters above 0 before it
C11_Witness ==
    /\ Returned("resetStats")
    /\ pre.mStatFramesAdded > 0
    /\ pre.mStatFramesRead > 0
    /\ pre.mStatFramesSkipped > 0
    /\ pre.mCount > 0
    /\ pre.mNextAddIndex # 0
    /\ Stats(buffer) = <<0, 0, 0>>

\* C12: in every step that is not a call of resetStats() (a step of add(),
\* get(), peek(), reset(), lock() or unlock()), none of the three statistics
\* counters gets smaller.
C12_StatsNeverDecrease ==
    [][resetStats \/ /\ buffer'.mStatFramesAdded >= buffer.mStatFramesAdded
                     /\ buffer'.mStatFramesRead >= buffer.mStatFramesRead
                     /\ buffer'.mStatFramesSkipped >= buffer.mStatFramesSkipped]_vars

\* C12 witness: a get() has counted a frame read, after frames were skipped
\* and a reset() emptied the buffer, with no resetStats() so far
C12_Witness ==
    /\ Returned("get")
    /\ buffer.mStatFramesRead = pre.mStatFramesRead + 1
    /\ buffer.mStatFramesRead > 1
    /\ buffer.mStatFramesSkipped > 0
    /\ buffer.mStatFramesAdded = frameNo
    /\ Len(added) < frameNo

\* C13: a buffer just constructed (capacity > 0) has count 0, is empty and is
\* not full; after k adds and nothing else, k <= capacity, it has count k,
\* k frames added, none skipped, and is full exactly when k = capacity.
C13_FreshBufferAndFirstAdds ==
    /\ lastOp = "construct" =>
          /\ buffer.mCount = 0
          /\ isEmpty(buffer)
          /\ ~isFull(buffer)
    /\ (onlyAdds /\ frameNo <= capacity(buffer)) =>
          /\ buffer.mCount = frameNo
          /\ buffer.mStatFramesAdded = frameNo
          /\ buffer.mStatFramesSkipped = 0
          /\ isFull(buffer) <=> (frameNo = capacity(buffer))

\* C13 witness: capacity adds and nothing else have filled a buffer of more
\* than one slot
C13_Witness ==
    /\ onlyAdds
    /\ Returned("add")
    /\ capacity(buffer) > 1
    /\ frameNo = capacity(buffer)
    /\ isFull(buffer)

C15_NoAddWhileConsumerHoldsLock ==
    [][mMutex = "consumer" =>
          /\ frameNo' = frameNo
          /\ added' = added
          /\ buffer'.mCircularBuffer = buffer.mCircularBuffer
          /\ buffer'.mNextAddIndex = buffer.mNextAddIndex
          /\ buffer'.mStatFramesAdded = buffer.mStatFramesAdded
          /\ buffer'.mStatFramesSkipped = buffer.mStatFramesSkipped]_vars

\* C15 witness: the consumer, holding the mutex, has taken an image with
\* get() and still holds the mutex, while an add() waits for it
C15_Witness ==
    /\ mMutex = "consumer"
    /\ consumer = "ready"
    /\ producer = "add_lock"
    /\ Returned("get")
    /\ ret # nullptr
    /\ buffer.mCircularBuffer[ret + 1] = Head(Window(pre))

\* C16 as stated: no call of get(), peek(), reset() or resetStats() is ever
\* inside mMutex.lock().
C16_ConsumerMethodsNeverLock ==
    consumer \notin {"get_reset_lock", "reset_lock", "resetStats_lock"}

\* C17 as stated: in no state does an add() wait for the mutex while the
\* consumer holds it.
C17_Original_ProducerNeverWaits ==
    ~(producer = "add_lock" /\ mMutex = "consumer")

\* C17 amended: a call of add() that does not run at once found the mutex
\* held; it never waits because the buffer is full.
C17_AddWaitsOnlyForHeldLock ==
    [][(producer = "idle" /\ producer' # "idle") => mMutex # "free"]_vars

\* C17 witness: frames were overwritten on a full buffer without add()
\* waiting, and now an add() waits, the buffer full, for the mutex the
\* consumer holds
C17_Witness ==
    /\ producer = "add_lock"
    /\ mMutex = "consumer"
    /\ isFull(buffer)
    /\ buffer.mStatFramesSkipped > 1

\* C18: while the session is initialized, and not inside uninitVideo(), the
\* ring buffer is allocated exactly when no receiver is registered; no
\* invocation of the callback has both added its frame to the ring buffer and
\* passed it to a receiver, and none that found the session initialized has
\* done neither.
C18_ExactlyOneDeliveryMode ==
    /\ (session.mVideoInitialized /\ teardown = 0) =>
          ((session.mpCircularImageBuffer # nullptr) <=>
           (session.mLumaFrameReceiver = nullptr))
    /\ ~(delivery.toBuffer /\ delivery.toReceiver # nullptr)
    /\ (delivery.image # 0 /\ delivery.initialized) =>
          (delivery.toBuffer \/ delivery.toReceiver # nullptr)

\* C18 witness: in a session started without a receiver the callback has
\* added its second frame to the ring buffer and passed it to no receiver
C18_Witness ==
    /\ session.mVideoInitialized
    /\ session.mLumaFrameReceiver = nullptr
    /\ delivery.initialized
    /\ delivery.toBuffer
    /\ delivery.toReceiver = nullptr
    /\ delivery.image > 1
    /\ buffer.mCount > 1

\* C19 as stated: whenever the last startCapture() that succeeded was given a
\* receiver, no ring buffer is allocated and that receiver is the one the
\* callback passes the frames to.
C19_ReceiverOfLastStartIsUsed ==
    lastStart \in Receivers =>
        /\ session.mpCircularImageBuffer = nullptr
        /\ session.mLumaFrameReceiver = lastStart

\* C20 as stated: once stopCapture() has returned without an exception, the
\* ring buffer is released, and until the next call returns no callback adds
\* a frame or invokes the receiver.
C20_StopReleasesBufferAndEndsDelivery ==
    [][lastCall' = "stopCapture" =>
          /\ session'.mpCircularImageBuffer = nullptr
          /\ lastCall = "stopCapture" => delivery' = delivery]_vars

\* C21: a call of stopCapture() that follows a call of stopCapture() that
\* returned, or that finds the capture off, leaves the data members, the
\* camera's port and the ring buffer as they are, whether it returns or throws.
C21_StopCaptureIdempotent ==
    [][((\E outcome \in StopOutcomes : stopCapture(outcome)) /\ (stops > 0 \/ ~hw.capture))
          => UNCHANGED <<session, hw, buffer>>]_vars

\* C21 witness: a session that delivered frames was stopped by two calls of
\* stopCapture() one after the other, and both returned
C21_Witness ==
    /\ stops = 2
    /\ lastCall = "stopCapture"
    /\ session.mVideoInitialized
    /\ ~hw.capture
    /\ hw.frames > 0

\* C22: no invocation of the callback has called add() on a deleted ring
\* buffer, and while mpCircularImageBuffer points to a deleted buffer the port
\* is disabled and no invocation is in flight.
C22_NoAddOnDeletedBuffer ==
    /\ ~delivery.deleted
    /\ Deleted => (~hw.is_enabled /\ \A i \in CallbackThreads : callback[i].pc = "idle")

\* C22 witness: the destructor has deleted the ring buffer the callback added
\* frames to, and has not yet cleared the pointer to it
C22_Witness ==
    /\ Deleted
    /\ AtStep("null")
    /\ delivery.toBuffer
    /\ frameNo > 1

\* C23 as stated, in the form a finite run refutes: while the port is enabled
\* every buffer header of the pool is at the port, in the pool or in the
\* hands of an invocation in flight, that is, an invocation that has returned
\* has released its header.
C23_EveryBufferHeaderReleased ==
    hw.is_enabled =>
        hw.atPort + hw.pool + Cardinality({i \in CallbackThreads : callback[i].pc # "idle"})
            = kVideoOutputBufferCount

\* C24 as stated: at most one invocation of the callback is between the
\* setting and the clearing of noReentryFlag.
C24_AtMostOneInvocationInBody ==
    Cardinality({i \in CallbackThreads : callback[i].pc \in {"deliver", "release"}}) <= 1

\* A frame is in the hands of an invocation at one of the places `pcs`
FrameAt(f, pcs) ==
    \E i \in CallbackThreads : callback[i].image = f /\ callback[i].pc \in pcs

\* The session is initialized with a receiver, and not being destroyed
ReceiverMode ==
    /\ session.mVideoInitialized
    /\ session.mLumaFrameReceiver \in Receivers
    /\ teardown = 0

C26_Rotate180Rotates ==
    (kernel.op = "rotate180" /\ kernel.times = 1) =>
        \A x \in 0 .. kernel.dstWidth - 1, y \in 0 .. kernel.dstHeight - 1 :
            kernel.dst[y * kernel.dstWidth + x] =
                kernel.src[(kernel.dstHeight - 1 - y) * kernel.dstWidth
                              + (kernel.dstWidth - 1 - x)]

\* C27: after rotate180 was applied twice to a buffer, the buffer holds what
\* it held before, whatever its width and height.
C27_Rotate180TwiceRestores ==
    (kernel.op = "rotate180" /\ kernel.times = 2) => kernel.dst = kernel.src

\* C27 witness: rotate180 was applied twice to an image of odd width with
\* more than one line
C27_Witness ==
    /\ kernel.op = "rotate180"
    /\ kernel.times = 2
    /\ kernel.dstWidth = 3
    /\ kernel.dstHeight = 2
    /\ kernel.dst = Ramp(6)

\* The calls of the two nearest-neighbor kernels
NearestNeighbor ==
    /\ kernel.op \in {"resampleNearestNeighborLuma", "resampleNearestNeighborColor"}
    /\ kernel.times = 1

\* The index of the source pixel a pixel of the result was copied from (the
\* source of the luma kernel holds i at i, that of the color kernel 65793 * i)
SourceIndex(sample) ==
    IF kernel.op = "resampleNearestNeighborColor" THEN sample \div 65793 ELSE sample

\* C28: both nearest-neighbor kernels write to every destination pixel
\* (xd, yd) the source pixel at column (xd * stepX) >> 16 and line
\* (yd * stepY) >> 16, with stepX = (srcW << 16) / dstW and
\* stepY = (srcH << 16) / dstH.
C28_NearestNeighborSourceIndex ==
    NearestNeighbor =>
        LET stepX == (kernel.srcWidth * 65536) \div kernel.dstWidth
            stepY == (kernel.srcHeight * 65536) \div kernel.dstHeight
        IN  \A xd \in 0 .. kernel.dstWidth - 1, yd \in 0 .. kernel.dstHeight - 1 :
                LET column == (xd * stepX) \div 65536
                    line   == (yd * stepY) \div 65536
                    sample == kernel.dst[yd * kernel.dstWidth + xd]
                IN  /\ line * kernel.srcWidth + column \in DOMAIN kernel.src
                    /\ sample = kernel.src[line * kernel.srcWidth + column]
                    /\ SourceIndex(sample) = line * kernel.srcWidth + column

\* C28 witness: the color kernel has resampled an image of 3 x 2 pixels to
\* 2 x 3 pixels, narrower and higher, neither ratio a whole number
C28_Witness ==
    /\ kernel.op = "resampleNearestNeighborColor"
    /\ kernel.times = 1
    /\ kernel.srcWidth = 3
    /\ kernel.srcHeight = 2
    /\ kernel.dstWidth = 2
    /\ kernel.dstHeight = 3
    /\ SourceIndex(kernel.dst[5]) = 4

\* C29: a nearest-neighbor kernel called with the destination as wide and as
\* high as the source leaves in dst a copy of src.
C29_NearestNeighborSameSizeCopies ==
    (/\ NearestNeighbor
     /\ kernel.dstWidth = kernel.srcWidth
     /\ kernel.dstHeight = kernel.srcHeight) => kernel.dst = kernel.src

\* C29 witness: the luma kernel has resampled an image of 2 x 3 pixels to
\* 2 x 3 pixels
C29_Witness ==
    /\ kernel.op = "resampleNearestNeighborLuma"
    /\ kernel.times = 1
    /\ kernel.srcWidth = 2
    /\ kernel.srcHeight = 3
    /\ kernel.dstWidth = 2
    /\ kernel.dstHeight = 3
    /\ kernel.dst = Ramp(6)

\* The sum of the samples of an image at the indices of a set
RECURSIVE SumOver(_, _)
SumOver(image, indices) ==
    IF indices = {}
    THEN 0
    ELSE LET i == CHOOSE j \in indices : TRUE
         IN  image[i] + SumOver(image, indices \ {i})

\* The source rectangle [x0,x1) x [y0,y1) of the destination pixel (xd, yd)
\* of a call, as the set of the indices of its pixels
Rectangle(xd, yd) ==
    LET stepX == (kernel.srcWidth * 65536) \div kernel.dstWidth
        stepY == (kernel.srcHeight * 65536) \div kernel.dstHeight
        x0 == (xd * stepX) \div 65536
        x1 == ((xd + 1) * stepX) \div 65536
        y0 == (yd * stepY) \div 65536
        y1 == ((yd + 1) * stepY) \div 65536
    IN  {y * kernel.srcWidth + x : x \in x0 .. x1 - 1, y \in y0 .. y1 - 1}

\* C30: the box average writes to every destination pixel whose source
\* rectangle is not empty the sum of the samples of the rectangle divided by
\* their number, truncated; a 2 x 2 image of one value v reduced to one pixel
\* gives v, and the 2 x 2 image 0, 255, 0, 255 gives 127.
C30_BoxAverageIsTruncatedMean ==
    (kernel.op = "resampleLerpFastLuma" /\ kernel.times = 1 /\ ~kernel.trapped) =>
        /\ \A xd \in 0 .. kernel.dstWidth - 1, yd \in 0 .. kernel.dstHeight - 1 :
              Rectangle(xd, yd) # {} =>
                  kernel.dst[yd * kernel.dstWidth + xd] =
                      SumOver(kernel.src, Rectangle(xd, yd))
                          \div Cardinality(Rectangle(xd, yd))
        /\ (/\ kernel.srcWidth = 2 /\ kernel.srcHeight = 2
            /\ kernel.dstWidth = 1 /\ kernel.dstHeight = 1) =>
              /\ (\A i \in 1 .. 3 : kernel.src[i] = kernel.src[0]) =>
                    kernel.dst[0] = kernel.src[0]
              /\ kernel.src = [i \in 0 .. 3 |-> IF i % 2 = 0 THEN 0 ELSE 255] =>
                    kernel.dst[0] = 127

\* C30 witness: the 2 x 2 image 0, 255, 0, 255 was reduced to one pixel, of
\* value 127
C30_Witness ==
    /\ kernel.op = "resampleLerpFastLuma"
    /\ kernel.times = 1
    /\ ~kernel.trapped
    /\ kernel.srcWidth = 2
    /\ kernel.srcHeight = 2
    /\ kernel.src = [i \in 0 .. 3 |-> IF i % 2 = 0 THEN 0 ELSE 255]
    /\ kernel.dstWidth = 1
    /\ kernel.dstHeight = 1
    /\ kernel.dst[0] = 127

\* A call of the box average that has returned or trapped
BoxAverage == kernel.op = "resampleLerpFastLuma" /\ kernel.times = 1

\* C31: in the box average the divisor of a destination pixel is 0 exactly
\* when its source rectangle is empty; when the destination is no wider and
\* no higher than the source no divisor is 0 (and the call does not trap);
\* when the destination is wider or higher than the source the divisor of
\* some pixel, the first one among them, is 0.
C31_BoxAverageDivisor ==
    BoxAverage =>
        /\ \A xd \in 0 .. kernel.dstWidth - 1, yd \in 0 .. kernel.dstHeight - 1 :
              (yd * kernel.dstWidth + xd \in kernel.divided)
                  <=> (Cardinality(Rectangle(xd, yd)) < 1)
        /\ (kernel.dstWidth <= kernel.srcWidth /\ kernel.dstHeight <= kernel.srcHeight)
              => (kernel.divided = {} /\ ~kernel.trapped)
        /\ (kernel.dstWidth > kernel.srcWidth \/ kernel.dstHeight > kernel.srcHeight)
              => 0 \in kernel.divided

\* C31 witness: the box average was called to make an image of 1 x 2 pixels
\* out of one of 2 x 1 pixels, narrower and higher, and trapped: the divisor
\* of its first pixel was 0, that of its second was not
C31_Witness ==
    /\ BoxAverage
    /\ kernel.srcWidth = 2
    /\ kernel.srcHeight = 1
    /\ kernel.dstWidth = 1
    /\ kernel.dstHeight = 2
    /\ kernel.trapped
    /\ kernel.divided = {0}

\* The byte k (0 the lowest) of a number that is not negative
Byte(n, k) == (n \div 256 ^ k) % 256

\* C32: copyColorToLuma writes to dst[i], for every i < width * height, the
\* largest of the three low bytes of src[i], whatever the top byte.
C32_ColorToLumaIsMaxOfLowBytes ==
    (kernel.op = "copyColorToLuma" /\ kernel.times = 1) =>
        \A i \in 0 .. kernel.dstWidth * kernel.dstHeight - 1 :
            /\ kernel.dst[i] \in {Byte(kernel.src[i], k) : k \in 0 .. 2}
            /\ \A k \in 0 .. 2 : kernel.dst[i] >= Byte(kernel.src[i], k)

\* C32 witness: copyColorToLuma has copied an image that holds 0x7f102030,
\* whose top byte is its largest, and has written 0x30 for it
C32_Witness ==
    /\ kernel.op = "copyColorToLuma"
    /\ kernel.times = 1
    /\ kernel.dstWidth * kernel.dstHeight > 2
    /\ \E i \in DOMAIN kernel.src :
          /\ kernel.src[i] = 2131763248
          /\ kernel.dst[i] = 48

\* C33: copyLumaToColor writes to dst[i], for every i < width * height, a
\* pixel whose three low bytes are src[i] and whose top byte is 0, that is
\* p | (p << 8) | (p << 16) with p = src[i].
C33_LumaToColorRepeatsByte ==
    (kernel.op = "copyLumaToColor" /\ kernel.times = 1) =>
        \A i \in 0 .. kernel.dstWidth * kernel.dstHeight - 1 :
            /\ \A k \in 0 .. 2 : Byte(kernel.dst[i], k) = kernel.src[i]
            /\ Byte(kernel.dst[i], 3) = 0
            /\ kernel.dst[i] = kernel.src[i] * 65793

\* C33 witness: copyLumaToColor has copied an image that holds 255 and has
\* written 0x00ffffff for it
C33_Witness ==
    /\ kernel.op = "copyLumaToColor"
    /\ kernel.times = 1
    /\ kernel.dstWidth * kernel.dstHeight > 2
    /\ \E i \in DOMAIN kernel.src :
          /\ kernel.src[i] = 255
          /\ kernel.dst[i] = 16777215

\* C34: copy2vuyToLuma writes src[2 * i + 1] to dst[i] for every
\* i < width * height and leaves every other element of dst as it was.
C34_VuyToLumaTakesSecondBytes ==
    (kernel.op = "copy2vuyToLuma" /\ kernel.times = 1) =>
        \A i \in DOMAIN kernel.dst :
            IF i < kernel.dstWidth * kernel.dstHeight
            THEN kernel.dst[i] = kernel.src[2 * i + 1]
            ELSE kernel.dst[i] = Unwritten(i + 1)[i]

\* C34 witness: copy2vuyToLuma has copied an image of 3 x 2 pixels; the last
\* pixel holds byte 11 of the source and the element after it was not
\* written
C34_Witness ==
    /\ kernel.op = "copy2vuyToLuma"
    /\ kernel.times = 1
    /\ kernel.dstWidth = 3
    /\ kernel.dstHeight = 2
    /\ kernel.dst[5] = 11
    /\ kernel.dst[6] = Unwritten(7)[6]

\* C35 as stated, in the form a finite run refutes: a consumer that has taken
\* the mutex with lock() and calls get() is never left waiting, in the reset()
\* that get() calls, for the mutex its own thread holds (a state the consumer
\* never leaves, and in which no add() ever gets the mutex).
C35_LockGetUnlockCompletes ==
    ~(mMutex = "consumer" /\ consumer = "get_reset_lock")

\* C36 as stated: when add() has returned, the mutex is not held by the
\* producer's thread.
C36_AddReleasesLock ==
    (lastOp = "add" /\ producer = "idle") => mMutex # "producer"

\* C37: as long as neither reset() nor resetStats() was called on the buffer,
\* the frames added are the frames read, the frames skipped and the frames
\* in the buffer together.
C37_EveryFrameAccountedFor ==
    noResets =>
        buffer.mStatFramesAdded =
            buffer.mStatFramesRead + buffer.mStatFramesSkipped + buffer.mCount

\* C37 witness: with no reset() and no resetStats() so far, frames were
\* read, frames were overwritten, and frames are in the buffer
C37_Witness ==
    /\ noResets
    /\ buffer.mStatFramesRead > 1
    /\ buffer.mStatFramesSkipped > 0
    /\ buffer.mCount > 1

\* C38: whenever the buffer holds a frame, the add index is the get index
\* plus the count, modulo the capacity.
C38_AddIndexIsGetIndexPlusCount ==
    buffer.mCount > 0 =>
        buffer.mNextAddIndex = (buffer.mNextGetIndex + buffer.mCount) % capacity(buffer)

\* C38 witness: after frames were overwritten, some were read and the buffer
\* was reset, the buffer holds frames again and is not full, the add index
\* behind the get index
C38_Witness ==
    /\ ~noResets
    /\ buffer.mStatFramesSkipped > 0
    /\ buffer.mStatFramesRead > 0
    /\ buffer.mCount > 0
    /\ ~isFull(buffer)
    /\ buffer.mNextAddIndex < buffer.mNextGetIndex

\* C39: after a startCapture() that failed the session is uninitialized:
\* mVideoInitialized is false, there is no ring buffer and no receiver is
\* registered. (Violated: a failure in createCameraComponent() leaves the
\* receiver registered, a failure of the capture switch leaves the session
\* initialized.)
C39_FailedStartLeavesSessionUninitialized ==
    (lastCall = "startCapture_throws" /\ teardown = 0) =>
        /\ ~session.mVideoInitialized
        /\ session.mpCircularImageBuffer = nullptr
        /\ session.mLumaFrameReceiver = nullptr

\* C40: one lock is shared by all buffer objects: while the consumer holds
\* the lock it took through one buffer, no add(), reset() or resetStats() on
\* another buffer gets past its lock(): that buffer stays as it is and no
\* call on it completes.
C40_OtherInstanceWaitsForConsumerLock ==
    [][mMutex = "consumer" =>
           /\ other' = other
           /\ otherCalls' = otherCalls
           /\ (otherCaller # "idle" => otherCaller' = otherCaller)]_vars

\* C40 witness: the consumer holds the lock of the first buffer and a
\* reset() of the second buffer, which holds frames, waits in its lock()
C40_Witness ==
    /\ mMutex = "consumer"
    /\ otherCaller = "reset"
    /\ other.mCount > 1
====
